---------------------------- MODULE Spec2Model ----------------------------
(***************************************************************************)
(* A model of the manifest-driven file reconciliation engine of the        *)
(* dotfiles CLI: the manifest store (files/manifest.py), the symlink and   *)
(* copy reconcilers (files/linker.py, files/copier.py) and the commands    *)
(* apply, collect, add, remove, diff and status (commands/sync.py).        *)
(*                                                                         *)
(* The filesystem is a function from a small set of paths to nodes.  A     *)
(* node is absent, a regular file with a content, a directory with a set   *)
(* of <<name, content, mtime>> members (regular files), or a symbolic link *)
(* with a target path.                                                     *)
(* The pathlib predicates follow links the way the library does: exists,   *)
(* is_file and is_dir look through links, is_symlink does not.             *)
(***************************************************************************)
EXTENDS Integers, Sequences, FiniteSets, TLC

VARIABLES fs, bk, doc, entries, last, prev

vars == <<fs, bk, doc, entries, last, prev>>

(***************************************************************************)
(* Bounds of the model.                                                    *)
(***************************************************************************)
\* File contents are 1..MaxContent.
MaxContent == 2
\* A manifest (document or in memory) holds at most MaxEntries entries.
MaxEntries == 2

(***************************************************************************)
(* Paths.  HomePaths are destinations relative to $HOME, RepoPaths are     *)
(* sources relative to the repository, OtherPaths are paths that are       *)
(* neither (what a foreign symlink may point to).                          *)
(***************************************************************************)
HomePaths == {"a.json", "a.yaml"}
RepoPaths == {"s1", "s2"}
OtherPaths == {"x1"}
Paths == HomePaths \cup RepoPaths \cup OtherPaths

Contents == 1..MaxContent

Absent == [k |-> "absent", c |-> 0, e |-> {}, t |-> ""]
File(c) == [k |-> "file", c |-> c, e |-> {}, t |-> ""]
Dir(e) == [k |-> "dir", c |-> 0, e |-> e, t |-> ""]
Link(t) == [k |-> "link", c |-> 0, e |-> {}, t |-> t]
\* A regular file holding text (the record of a symlink's target).
Text(t) == [k |-> "text", c |-> 0, e |-> {}, t |-> t]

\* The modification times of the files in a directory.  A file outside a
\* directory has the modification time 1: nothing looks at it but a copy of
\* the file into a directory, which keeps it.
MTimes == {1, 2}

\* st_size of a file with the content: contents 1 and 2 have the same length.
Size(c) == (c + 1) \div 2

\* The directories of the model: one member with each content and time, one
\* with two members, and one with a member whose name filecmp ignores.
DirVals ==
    {{<<"a", c, m>>} : c \in Contents, m \in MTimes}
        \cup {{<<"a", 1, 1>>, <<"b", 1, 1>>}, {<<"a", 1, 1>>, <<"tags", 1, 1>>}}

(***************************************************************************)
(* pathlib, os and shutil.                                                 *)
(***************************************************************************)
RECURSIVE ResolveN(_, _, _)
ResolveN(f, p, n) ==
    IF f[p].k = "link"
    THEN IF n = 0 THEN "loop" ELSE ResolveN(f, f[p].t, n - 1)
    ELSE p

\* Path.resolve() (not strict): the path reached by following every link,
\* whether or not anything is there.
Resolve(f, p) == ResolveN(f, p, Cardinality(DOMAIN f))

NodeAt(f, p) == IF Resolve(f, p) = "loop" THEN Absent ELSE f[Resolve(f, p)]

Exists(f, p) == NodeAt(f, p).k # "absent"
IsSymlink(f, p) == f[p].k = "link"
IsDir(f, p) == NodeAt(f, p).k = "dir"
IsFile(f, p) == NodeAt(f, p).k \in {"file", "text"}

\* The member `name` of a directory set to content c, with the modification
\* time of the file copied (copy2 keeps it).
PutMember(e, name, c) == {m \in e : m[1] # name} \cup {<<name, c, 1>>}

\* The result of a filesystem call: the filesystem after it and the exception
\* it raised ("" when it returned).
Fx(f, raised) == [fs |-> f, raised |-> raised]

\* Path.unlink(): removes the file or the link itself.
Unlink(f, p) ==
    IF f[p].k = "absent" THEN Fx(f, "FileNotFoundError")
    ELSE IF f[p].k = "dir" THEN Fx(f, "IsADirectoryError")
    ELSE Fx([f EXCEPT ![p] = Absent], "")

\* shutil.rmtree(): refuses a symbolic link and anything that is no directory.
Rmtree(f, p) ==
    IF f[p].k = "link" THEN Fx(f, "OSError")
    ELSE IF f[p].k = "absent" THEN Fx(f, "FileNotFoundError")
    ELSE IF f[p].k # "dir" THEN Fx(f, "NotADirectoryError")
    ELSE Fx([f EXCEPT ![p] = Absent], "")

\* Path.symlink_to(): the link is made only where nothing is.
SymlinkTo(f, p, target) ==
    IF f[p].k # "absent" THEN Fx(f, "FileExistsError")
    ELSE Fx([f EXCEPT ![p] = Link(target)], "")

\* shutil.copy2(src, dst) of the regular file node `n` named `name` onto dst:
\* into dst when dst is a directory, else onto whatever dst resolves to (a
\* dangling link's target is created).
Copy2Node(f, n, name, dst) ==
    LET r == Resolve(f, dst) IN
    IF n.k = "absent" THEN Fx(f, "FileNotFoundError")
    ELSE IF n.k = "dir" THEN Fx(f, "IsADirectoryError")
    ELSE IF r = "loop" THEN Fx(f, "OSError")
    ELSE IF f[r].k = "dir"
         THEN Fx([f EXCEPT ![r] = Dir(PutMember(f[r].e, name, n.c))], "")
         ELSE Fx([f EXCEPT ![r] = n], "")

Copy2(f, src, dst) ==
    IF Exists(f, src) /\ Exists(f, dst) /\ Resolve(f, src) = Resolve(f, dst)
    THEN Fx(f, "SameFileError")
    ELSE Copy2Node(f, NodeAt(f, src), src, dst)

\* shutil.copytree(src, dst) of the directory node `n` onto dst: os.makedirs
\* refuses a dst that is there, a link included.
CopytreeNode(f, n, dst) ==
    IF n.k = "absent" THEN Fx(f, "FileNotFoundError")
    ELSE IF n.k # "dir" THEN Fx(f, "NotADirectoryError")
    ELSE IF f[dst].k # "absent" THEN Fx(f, "FileExistsError")
    ELSE Fx([f EXCEPT ![dst] = n], "")

Copytree(f, src, dst) == CopytreeNode(f, NodeAt(f, src), dst)


(***************************************************************************)
(* The backup directory of a run: a function from the paths below it to    *)
(* nodes.  A destination is backed up at its path relative to home; a      *)
(* symlink's record is written at that path with its suffix replaced.      *)
(***************************************************************************)
\* Path.with_suffix(".symlink") of the model's destinations: the last suffix
\* of the name is replaced.
WithSuffixSymlink(d) ==
    CASE d = "a.json" -> "a.symlink"
      [] d = "a.yaml" -> "a.symlink"

BackupPaths == HomePaths \cup {WithSuffixSymlink(d) : d \in HomePaths}

EmptyBackup == [p \in BackupPaths |-> Absent]

\* What a reconciler call did: the filesystem and backup directory after it,
\* the pair it returned, and the exception that left it ("" when it returned).
Outcome(f, b, ok, status, raised) ==
    [fs |-> f, bk |-> b, ok |-> ok, status |-> status, raised |-> raised]

\* Path.write_text(): a directory cannot be opened for writing.
WriteText(b, p, text) ==
    IF b[p].k = "dir" THEN Fx(b, "IsADirectoryError")
    ELSE Fx([b EXCEPT ![p] = Text(text)], "")

\* The directory branch of both _backup_existing: an earlier backup at the
\* path is removed, then the tree is copied.
BackupTree(f, b, d) ==
    LET cleared == IF b[d].k # "absent" THEN Rmtree(b, d) ELSE Fx(b, "") IN
    IF cleared.raised # "" THEN cleared
    ELSE CopytreeNode(cleared.fs, NodeAt(f, d), d)

(***************************************************************************)
(* files/linker.py                                                         *)
(***************************************************************************)
\* linker_backup_existing without its directory branch.
linker_backup_existing_no_tree(f, b, d, useBk) ==
    IF ~useBk THEN Fx(b, "")
    ELSE IF ~(Exists(f, d) \/ IsSymlink(f, d)) THEN Fx(b, "")
    ELSE IF IsSymlink(f, d)
         THEN WriteText(b, WithSuffixSymlink(d),
                        IF Exists(f, d) THEN Resolve(f, d) ELSE "broken")
    ELSE IF IsDir(f, d) THEN Fx(b, "")
    ELSE Copy2Node(b, NodeAt(f, d), d, d)

\* _backup_existing of linker.py; useBk is `backup_dir is not None`.  The
\* result is the backup directory after the call.
linker_backup_existing(f, b, d, useBk) ==
    IF ~useBk THEN Fx(b, "")
    ELSE IF ~(Exists(f, d) \/ IsSymlink(f, d)) THEN Fx(b, "")
    ELSE IF IsSymlink(f, d)
         THEN WriteText(b, WithSuffixSymlink(d),
                        IF Exists(f, d) THEN Resolve(f, d) ELSE "broken")
    ELSE IF IsDir(f, d) THEN BackupTree(f, b, d)
    ELSE Copy2Node(b, NodeAt(f, d), d, d)

\* The removal of the existing destination with `if dest_abs.is_dir()` alone,
\* which looks through a link.
RemoveExistingFollowing(f, d) ==
    IF IsDir(f, d) THEN Rmtree(f, d) ELSE Unlink(f, d)

\* The removal of the existing destination in create_symlink.
RemoveExisting(f, d) ==
    IF IsDir(f, d) /\ ~IsSymlink(f, d) THEN Rmtree(f, d) ELSE Unlink(f, d)

create_symlink(f, b, source, d, force, useBk) ==
    IF Exists(f, d) \/ IsSymlink(f, d)
    THEN IF IsSymlink(f, d) /\ Resolve(f, d) = Resolve(f, source)
         THEN Outcome(f, b, TRUE, "ok", "")
         ELSE IF ~force THEN Outcome(f, b, FALSE, "conflict", "")
         ELSE LET saved == linker_backup_existing(f, b, d, useBk) IN
              IF saved.raised # ""
              THEN Outcome(f, saved.fs, FALSE, "", saved.raised)
              ELSE LET removed == RemoveExisting(f, d) IN
                   IF removed.raised # ""
                   THEN Outcome(removed.fs, saved.fs, FALSE, "", removed.raised)
                   ELSE LET linked == SymlinkTo(removed.fs, d, source) IN
                        Outcome(linked.fs, saved.fs, linked.raised = "",
                                IF linked.raised = "" THEN "created" ELSE "",
                                linked.raised)
    ELSE LET linked == SymlinkTo(f, d, source) IN
         Outcome(linked.fs, b, linked.raised = "",
                 IF linked.raised = "" THEN "created" ELSE "", linked.raised)

\* check_symlink comparing the link's own target, unresolved, with the source.
check_symlink_unresolved(f, source, d) ==
    IF ~Exists(f, d) /\ ~IsSymlink(f, d) THEN "missing"
    ELSE IF ~IsSymlink(f, d) THEN "conflict"
    ELSE IF f[d].t = source THEN "ok"
    ELSE "wrong"

check_symlink(f, source, d) ==
    IF ~Exists(f, d) /\ ~IsSymlink(f, d) THEN "missing"
    ELSE IF ~IsSymlink(f, d) THEN "conflict"
    ELSE IF Resolve(f, d) = Resolve(f, source) THEN "ok"
    ELSE "wrong"

(***************************************************************************)
(* files/copier.py                                                         *)
(***************************************************************************)
\* _backup_existing of copier.py: exists() and is_dir() look through a link,
\* so what a link points to is what is backed up.
copier_backup_existing(f, b, d, useBk) ==
    IF ~useBk THEN Fx(b, "")
    ELSE IF ~Exists(f, d) THEN Fx(b, "")
    ELSE IF IsDir(f, d) THEN BackupTree(f, b, d)
    ELSE Copy2Node(b, NodeAt(f, d), d, d)

\* filecmp.cmp(source, dest, shallow=False): the bytes are compared.
SameBytes(f, p, q) == NodeAt(f, p) = NodeAt(f, q)

\* The copy itself, from "Copy the file (or directory)" on.  A node has no
\* permission bits, so the chmod of a sensitive destination changes nothing
\* here.
CopyStep(f, b, source, d) ==
    IF IsDir(f, source)
    THEN LET cleared == IF Exists(f, d) THEN Rmtree(f, d) ELSE Fx(f, "") IN
         IF cleared.raised # ""
         THEN Outcome(cleared.fs, b, FALSE, "", cleared.raised)
         ELSE LET copied == Copytree(cleared.fs, source, d) IN
              Outcome(copied.fs, b, copied.raised = "",
                      IF copied.raised = "" THEN "copied" ELSE "", copied.raised)
    ELSE LET copied == Copy2(f, source, d) IN
         Outcome(copied.fs, b, copied.raised = "",
                 IF copied.raised = "" THEN "copied" ELSE "", copied.raised)

copy_file(f, b, source, d, force, useBk) ==
    IF Exists(f, d)
    THEN IF IsFile(f, d) /\ IsFile(f, source) /\ SameBytes(f, source, d)
         THEN Outcome(f, b, TRUE, "ok", "")
         ELSE IF ~force THEN Outcome(f, b, FALSE, "conflict", "")
         ELSE LET saved == copier_backup_existing(f, b, d, useBk) IN
              IF saved.raised # ""
              THEN Outcome(f, saved.fs, FALSE, "", saved.raised)
              ELSE CopyStep(f, saved.fs, source, d)
    ELSE CopyStep(f, b, source, d)

\* filecmp.DEFAULT_IGNORES, the names dircmp leaves out of both listings (of
\* the names of the model, `tags`).
DefaultIgnores == {"RCS", "CVS", "tags", ".git", ".hg", ".bzr", "_darcs",
                   "__pycache__"}

\* filecmp.cmp(a, b) with shallow=True, as dircmp calls it for a common file:
\* equal signatures (size, mtime) are enough, different sizes decide, and the
\* bytes are read only for the rest.
ShallowSame(x, y) ==
    IF Size(x[2]) = Size(y[2]) /\ x[3] = y[3] THEN TRUE
    ELSE IF Size(x[2]) # Size(y[2]) THEN FALSE
    ELSE x[2] = y[2]

\* The names dircmp lists in a directory.
Listed(e) == {m[1] : m \in e} \ DefaultIgnores

\* `not cmp.diff_files and not cmp.left_only and not cmp.right_only` of
\* filecmp.dircmp(source, dest).
SameTree(f, p, q) ==
    LET left == NodeAt(f, p).e
        right == NodeAt(f, q).e
    IN /\ Listed(left) = Listed(right)
       /\ \A x \in left, y \in right :
             (x[1] = y[1] /\ x[1] \in Listed(left)) => ShallowSame(x, y)

\* check_copy with the files of two directories compared byte for byte.
check_copy_deep(f, source, d) ==
    IF ~Exists(f, d) THEN "missing"
    ELSE IF IsFile(f, source) /\ IsFile(f, d)
         THEN IF SameBytes(f, source, d) THEN "ok" ELSE "changed"
    ELSE IF IsDir(f, source) /\ IsDir(f, d)
         THEN IF /\ Listed(NodeAt(f, source).e) = Listed(NodeAt(f, d).e)
                 /\ \A x \in NodeAt(f, source).e, y \in NodeAt(f, d).e :
                       (x[1] = y[1] /\ x[1] \notin DefaultIgnores) => x[2] = y[2]
              THEN "ok" ELSE "changed"
    ELSE "changed"

\* check_copy answering a file/directory mismatch in the words of
\* check_symlink.
check_copy_mismatch_wrong(f, source, d) ==
    IF ~Exists(f, d) THEN "missing"
    ELSE IF IsFile(f, source) /\ IsFile(f, d)
         THEN IF SameBytes(f, source, d) THEN "ok" ELSE "changed"
    ELSE IF IsDir(f, source) /\ IsDir(f, d)
         THEN IF SameTree(f, source, d) THEN "ok" ELSE "changed"
    ELSE "wrong"

check_copy(f, source, d) ==
    IF ~Exists(f, d) THEN "missing"
    ELSE IF IsFile(f, source) /\ IsFile(f, d)
         THEN IF SameBytes(f, source, d) THEN "ok" ELSE "changed"
    ELSE IF IsDir(f, source) /\ IsDir(f, d)
         THEN IF SameTree(f, source, d) THEN "ok" ELSE "changed"
    ELSE "changed"

(***************************************************************************)
(* The record of the last call.  Every specification keeps the same shape: *)
(* the call and its arguments, what it returned, and the state before it.  *)
(***************************************************************************)
Call(op, source, d, force, useBk, out, f0, b0) ==
    [op |-> op, source |-> source, dest |-> d, force |-> force, useBk |-> useBk,
     ok |-> out.ok, status |-> out.status, raised |-> out.raised,
     fs0 |-> f0, bk0 |-> b0]

NoCall ==
    [op |-> "none", source |-> "", dest |-> "", force |-> FALSE, useBk |-> FALSE,
     ok |-> FALSE, status |-> "", raised |-> "",
     fs0 |-> [p \in Paths |-> Absent], bk0 |-> EmptyBackup]

(***************************************************************************)
(* SpecCreate: one call of a reconciler's create on a home and a           *)
(* repository of every shape the bounds allow, and a check of a            *)
(* destination before or after it.  No link of an initial state is part of *)
(* a cycle.                                                                *)
(***************************************************************************)
FirstDestNodes ==
    {Absent} \cup {File(c) : c \in Contents} \cup {Dir(e) : e \in DirVals}
        \cup {Link(t) : t \in Paths \ {"a.json"}}

SecondDestNodes == {Absent, File(1), Link("s1"), Link("x1")}

InitCreate ==
    /\ \E n1 \in FirstDestNodes, n2 \in SecondDestNodes,
          n3 \in {File(1), Dir({<<"a", 1, 1>>})},
          n4 \in {File(MaxContent), Dir({<<"a", 1, 1>>, <<"b", 1, 1>>})},
          n5 \in {Absent, File(MaxContent), Dir({<<"a", MaxContent, 1>>})} :
          fs = ("a.json" :> n1) @@ ("a.yaml" :> n2) @@ ("s1" :> n3)
                  @@ ("s2" :> n4) @@ ("x1" :> n5)
    /\ bk = EmptyBackup
    /\ doc = <<>>
    /\ entries = <<>>
    /\ last = NoCall
    /\ prev = NoCall

CreateSymlink(source, d, force, useBk) ==
    LET out == create_symlink(fs, bk, source, d, force, useBk) IN
    /\ last.op = "none"
    /\ fs' = out.fs
    /\ bk' = out.bk
    /\ last' = Call("create_symlink", source, d, force, useBk, out, fs, bk)
    /\ UNCHANGED <<doc, entries, prev>>

CopyFile(source, d, force, useBk) ==
    LET out == copy_file(fs, bk, source, d, force, useBk) IN
    /\ last.op = "none"
    /\ fs' = out.fs
    /\ bk' = out.bk
    /\ last' = Call("copy_file", source, d, force, useBk, out, fs, bk)
    /\ UNCHANGED <<doc, entries, prev>>

IsCheck(call) == call.op \in {"check_symlink", "check_copy"}

CheckSymlink(source, d) ==
    /\ ~IsCheck(last)
    /\ prev' = last
    /\ last' = Call("check_symlink", source, d, FALSE, FALSE,
                    Outcome(fs, bk, TRUE, check_symlink(fs, source, d), ""), fs, bk)
    /\ UNCHANGED <<fs, bk, doc, entries>>

CheckCopy(source, d) ==
    /\ ~IsCheck(last)
    /\ prev' = last
    /\ last' = Call("check_copy", source, d, FALSE, FALSE,
                    Outcome(fs, bk, TRUE, check_copy(fs, source, d), ""), fs, bk)
    /\ UNCHANGED <<fs, bk, doc, entries>>

NextCreate ==
    \E source \in RepoPaths, d \in HomePaths :
        \/ \E force \in BOOLEAN, useBk \in BOOLEAN :
              CreateSymlink(source, d, force, useBk)
        \/ \E force \in BOOLEAN, useBk \in BOOLEAN :
              CopyFile(source, d, force, useBk)
        \/ CheckSymlink(source, d)
        \/ CheckCopy(source, d)

SpecCreate == InitCreate /\ [][NextCreate]_vars

(***************************************************************************)
(* files/manifest.py                                                       *)
(*                                                                         *)
(* An entry is a record (source, dest, type, platform); platform "none" is *)
(* Python's None.  The document on disk is the mapping yaml.safe_load      *)
(* returns: the set of its top-level keys, the list under `entries`, and   *)
(* the mappings under `symlinks`, `copies` and `platform`.  A mapping is a *)
(* sequence of <<key, value>> pairs with distinct keys, in the order of    *)
(* the document (a Python dict keeps it).  Paths and strings are written   *)
(* and read back by yaml as they are, so str(Path) and Path(str) leave the *)
(* model's path names alone.  `top` is what the document parses to: a       *)
(* mapping (an empty document included), a sequence or a scalar, which are  *)
(* no mapping, or nothing at all for a text yaml cannot parse.  In an item  *)
(* of `entries`, source or dest "none" is an item without that key.         *)
(***************************************************************************)
Platforms == {"darwin", "linux"}
Types == {"symlink", "copy"}

FileEntry(source, dest, type, platform) ==
    [source |-> source, dest |-> dest, type |-> type, platform |-> platform]

NoDocument ==
    [exists |-> FALSE, top |-> "mapping", keys |-> {}, entries |-> <<>>,
     symlinks |-> <<>>, copies |-> <<>>, platform |-> <<>>]

\* dict.get(key, {}): the mapping under the key, empty when the key is absent.
Get(data, key) ==
    IF key \notin data.keys THEN <<>>
    ELSE CASE key = "symlinks" -> data.symlinks
           [] key = "copies" -> data.copies
           [] key = "platform" -> data.platform

\* The entries of one legacy mapping source -> dest.
RECURSIVE FromSection(_, _, _)
FromSection(pairs, type, platform) ==
    IF pairs = <<>> THEN <<>>
    ELSE <<FileEntry(Head(pairs)[1], Head(pairs)[2], type, platform)>>
            \o FromSection(Tail(pairs), type, platform)

\* The entries of the legacy `platform` mapping: per platform, its symlinks
\* and then its copies.
RECURSIVE FromPlatforms(_)
FromPlatforms(plats) ==
    IF plats = <<>> THEN <<>>
    ELSE FromSection(Head(plats)[2].symlinks, "symlink", Head(plats)[1])
            \o FromSection(Head(plats)[2].copies, "copy", Head(plats)[1])
            \o FromPlatforms(Tail(plats))

\* The exception that leaves Manifest.load, "" when it returns: yaml's for a
\* text it cannot parse, data.get on what is no mapping, item["source"] or
\* item["dest"] on an item without the key.  Nothing in load catches one.
LoadRaised(data) ==
    IF ~data.exists THEN ""
    ELSE IF data.top = "unparsable" THEN "YAMLError"
    ELSE IF data.top # "mapping" THEN "AttributeError"
    ELSE IF /\ "entries" \in data.keys
            /\ \E i \in 1..Len(data.entries) :
                  data.entries[i].source = "none" \/ data.entries[i].dest = "none"
         THEN "KeyError"
    ELSE ""

\* Manifest.load reading the legacy keys of a document that has `entries` too.
LoadMerging(data) ==
    IF ~data.exists THEN <<>>
    ELSE (IF "entries" \in data.keys
          THEN [i \in 1..Len(data.entries) |->
                   FileEntry(data.entries[i].source, data.entries[i].dest,
                             IF data.entries[i].type = "none" THEN "symlink"
                             ELSE data.entries[i].type,
                             data.entries[i].platform)]
          ELSE <<>>)
         \o FromSection(Get(data, "symlinks"), "symlink", "none")
         \o FromSection(Get(data, "copies"), "copy", "none")
         \o FromPlatforms(Get(data, "platform"))

\* Manifest.load: the entries of the document at the path, when it returns.
Load(data) ==
    IF ~data.exists THEN <<>>
    ELSE IF "entries" \in data.keys
         THEN [i \in 1..Len(data.entries) |->
                  FileEntry(data.entries[i].source, data.entries[i].dest,
                            IF data.entries[i].type = "none" THEN "symlink"
                            ELSE data.entries[i].type,
                            data.entries[i].platform)]
         ELSE FromSection(Get(data, "symlinks"), "symlink", "none")
                 \o FromSection(Get(data, "copies"), "copy", "none")
                 \o FromPlatforms(Get(data, "platform"))

\* d[key] = value on a dict: a key that is there keeps its place.
DictSet(m, key, value) ==
    IF \E i \in 1..Len(m) : m[i][1] = key
    THEN [i \in 1..Len(m) |-> IF m[i][1] = key THEN <<key, value>> ELSE m[i]]
    ELSE Append(m, <<key, value>>)

DictGet(m, key, default) ==
    IF \E i \in 1..Len(m) : m[i][1] = key
    THEN (CHOOSE pair \in {m[i] : i \in 1..Len(m)} : pair[1] = key)[2]
    ELSE default

NoSections == [symlinks |-> <<>>, copies |-> <<>>]

\* One turn of the loop of Manifest.save on the dict `data` it builds.
SaveEntry(data, entry) ==
    LET section == IF entry.type = "symlink" THEN "symlinks" ELSE "copies" IN
    IF entry.platform # "none"
    THEN LET old == DictGet(data.platform, entry.platform, NoSections)
             new == IF section = "symlinks"
                    THEN [old EXCEPT !.symlinks = DictSet(@, entry.source, entry.dest)]
                    ELSE [old EXCEPT !.copies = DictSet(@, entry.source, entry.dest)]
         IN [data EXCEPT !.platform = DictSet(@, entry.platform, new)]
    ELSE IF section = "symlinks"
         THEN [data EXCEPT !.symlinks = DictSet(@, entry.source, entry.dest)]
         ELSE [data EXCEPT !.copies = DictSet(@, entry.source, entry.dest)]

RECURSIVE SaveLoop(_, _)
SaveLoop(data, es) ==
    IF es = <<>> THEN data ELSE SaveLoop(SaveEntry(data, Head(es)), Tail(es))

\* Manifest.save: the document written for the entries.  Empty sections are
\* deleted before the dump, so a key is written exactly when its mapping
\* holds something.
Save(es) ==
    LET data == SaveLoop(NoDocument, es) IN
    [exists |-> TRUE,
     top |-> "mapping",
     keys |-> {k \in {"symlinks", "copies", "platform"} :
                  CASE k = "symlinks" -> data.symlinks # <<>>
                    [] k = "copies" -> data.copies # <<>>
                    [] k = "platform" -> data.platform # <<>>},
     entries |-> <<>>,
     symlinks |-> data.symlinks,
     copies |-> data.copies,
     platform |-> data.platform]

\* The first index of an entry with the dest, 0 when there is none.
IndexOfDest(es, dest) ==
    IF \E i \in 1..Len(es) : es[i].dest = dest
    THEN CHOOSE i \in 1..Len(es) :
            /\ es[i].dest = dest
            /\ \A j \in 1..(i - 1) : es[j].dest # dest
    ELSE 0

\* Manifest.add, always appending.
add_append_only(es, source, dest, type, platform) ==
    Append(es, FileEntry(source, dest, type, platform))

\* Manifest.add, leaving the platform of an entry it updates.
add_keep_platform(es, source, dest, type, platform) ==
    LET i == IndexOfDest(es, dest) IN
    IF i # 0
    THEN [es EXCEPT ![i] = FileEntry(source, dest, type, es[i].platform)]
    ELSE Append(es, FileEntry(source, dest, type, platform))

\* Manifest.add: the entries after the call (which are then saved).
add(es, source, dest, type, platform) ==
    LET i == IndexOfDest(es, dest) IN
    IF i # 0
    THEN [es EXCEPT ![i] = FileEntry(source, dest, type, platform)]
    ELSE Append(es, FileEntry(source, dest, type, platform))

\* Manifest.remove: the entries after the call; it saves when it found one.
remove(es, dest) ==
    LET i == IndexOfDest(es, dest) IN
    IF i # 0
    THEN [j \in 1..(Len(es) - 1) |-> IF j < i THEN es[j] ELSE es[j + 1]]
    ELSE es

\* Manifest.for_platform, forgetting the entries with no platform.
for_platform_tagged_only(es, platform) ==
    SelectSeq(es, LAMBDA e : e.platform = platform)

\* Manifest.for_platform without its filter.
for_platform_everything(es, platform) == es

\* Manifest.for_platform.
for_platform(es, platform) ==
    SelectSeq(es, LAMBDA e : e.platform = "none" \/ e.platform = platform)

(***************************************************************************)
(* SpecManifest: a manifest loaded from a document of either shape, then   *)
(* any sequence of add, remove, for_platform and of loading it again (each *)
(* command is a fresh process that loads the document).                    *)
(***************************************************************************)
\* The entries of the model's manifests: untagged or tagged with one platform
\* (for_platform is asked for that platform and for the other one).
EntrySet ==
    {FileEntry(s, d, t, p) :
        s \in RepoPaths, d \in HomePaths, t \in Types, p \in {"none", "darwin"}}

RECURSIVE SeqsUpTo(_, _)
SeqsUpTo(S, n) ==
    IF n = 0 THEN {<<>>}
    ELSE LET shorter == SeqsUpTo(S, n - 1) IN
         shorter \cup {Append(q, x) : q \in {r \in shorter : Len(r) = n - 1}, x \in S}

\* The flat document listing the entries, each item with all four keys.
FlatDocument(es) ==
    [exists |-> TRUE, top |-> "mapping", keys |-> {"entries"}, entries |-> es,
     symlinks |-> <<>>, copies |-> <<>>, platform |-> <<>>]

ManifestCall(op, e, found, result, es0, doc0) ==
    [op |-> op, source |-> e.source, dest |-> e.dest, type |-> e.type,
     platform |-> e.platform, found |-> found, result |-> result,
     entries0 |-> es0, doc0 |-> doc0]

NoEntry == FileEntry("", "", "", "")

InitManifest ==
    /\ \E es \in SeqsUpTo(EntrySet, MaxEntries) :
          doc \in {NoDocument, FlatDocument(es)}
    /\ entries = Load(doc)
    /\ last = ManifestCall("load", NoEntry, FALSE, <<>>, <<>>, doc)
    /\ prev = NoCall
    /\ fs = [p \in Paths |-> Absent]
    /\ bk = EmptyBackup

ManifestAdd(e) ==
    /\ IndexOfDest(entries, e.dest) # 0 \/ Len(entries) < MaxEntries
    /\ entries' = add(entries, e.source, e.dest, e.type, e.platform)
    /\ doc' = Save(entries')
    /\ last' = ManifestCall("add", e, IndexOfDest(entries, e.dest) # 0, <<>>,
                            entries, doc)
    /\ UNCHANGED <<fs, bk, prev>>

ManifestRemove(d) ==
    /\ entries' = remove(entries, d)
    /\ doc' = IF IndexOfDest(entries, d) # 0 THEN Save(entries') ELSE doc
    /\ last' = ManifestCall("remove", FileEntry("", d, "", ""),
                            IndexOfDest(entries, d) # 0, <<>>, entries, doc)
    /\ UNCHANGED <<fs, bk, prev>>

ManifestForPlatform(p) ==
    /\ last' = ManifestCall("for_platform", FileEntry("", "", "", p), FALSE,
                            for_platform(entries, p), entries, doc)
    /\ UNCHANGED <<fs, bk, doc, entries, prev>>

ManifestLoad ==
    /\ entries' = Load(doc)
    /\ last' = ManifestCall("load", NoEntry, FALSE, <<>>, entries, doc)
    /\ UNCHANGED <<fs, bk, doc, prev>>

NextManifest ==
    \/ \E e \in EntrySet : ManifestAdd(e)
    \/ \E d \in HomePaths : ManifestRemove(d)
    \/ \E p \in Platforms : ManifestForPlatform(p)
    \/ ManifestLoad

SpecManifest == InitManifest /\ [][NextManifest]_vars

(***************************************************************************)
(* SpecLoad: Manifest.load of one document: absent, empty, of the flat     *)
(* shape, of the legacy shape, or with the keys of both, with or without a *)
(* top-level key and an item key that load does not know.  An item of      *)
(* `entries` is the mapping read from the document: `type`, `platform` or  *)
(* `note` "none" is an item without that key (`note` is a key load does    *)
(* not know).                                                              *)
(***************************************************************************)
Item(source, dest, type, platform, note) ==
    [source |-> source, dest |-> dest, type |-> type, platform |-> platform,
     note |-> note]

LoadItems ==
    {Item("s1", "a.json", "none", "none", "none"),
     Item("s2", "a.yaml", "copy", "darwin", "none"),
     Item("s1", "a.yaml", "symlink", "linux", "x"),
     Item("s2", "a.json", "none", "darwin", "x"),
     Item("none", "a.json", "copy", "none", "none")}

LegacyMappings ==
    {<<>>, <<<<"s1", "a.json">>>>, <<<<"s2", "a.json">>, <<"s1", "a.yaml">>>>}

LegacyPlatforms ==
    {<<>>,
     <<<<"darwin", [symlinks |-> <<<<"s1", "a.json">>>>,
                    copies |-> <<<<"s2", "a.yaml">>>>]>>>>,
     <<<<"linux", [symlinks |-> <<>>, copies |-> <<<<"s1", "a.json">>>>]>>,
       <<"darwin", [symlinks |-> <<<<"s2", "a.yaml">>>>, copies |-> <<>>]>>>>}

\* The top-level keys load looks at, and one it does not know.
KnownKeys == {"entries", "symlinks", "copies", "platform"}
UnknownKeys == {"version"}

LoadDocuments ==
    {NoDocument} \cup
    {[exists |-> TRUE, top |-> "mapping", keys |-> ks,
      entries |-> IF "entries" \in ks THEN es ELSE <<>>,
      symlinks |-> IF "symlinks" \in ks THEN sy ELSE <<>>,
      copies |-> IF "copies" \in ks THEN co ELSE <<>>,
      platform |-> IF "platform" \in ks THEN pl ELSE <<>>] :
        ks \in SUBSET (KnownKeys \cup UnknownKeys),
        es \in SeqsUpTo(LoadItems, MaxEntries),
        sy \in LegacyMappings, co \in LegacyMappings, pl \in LegacyPlatforms}

LoadCall(op, raised, es0, doc0) ==
    [op |-> op, raised |-> raised, entries0 |-> es0, doc0 |-> doc0]

InitLoad ==
    /\ doc \in LoadDocuments
    /\ entries = <<>>
    /\ last = LoadCall("none", "", <<>>, doc)
    /\ prev = NoCall
    /\ fs = [p \in Paths |-> Absent]
    /\ bk = EmptyBackup

\* Manifest.load(path): the manifest is made when load returns.
LoadDocument ==
    /\ last.op = "none"
    /\ entries' = IF LoadRaised(doc) = "" THEN Load(doc) ELSE entries
    /\ last' = LoadCall("load", LoadRaised(doc), entries, doc)
    /\ UNCHANGED <<fs, bk, doc, prev>>

NextLoad == LoadDocument

SpecLoad == InitLoad /\ [][NextLoad]_vars

(***************************************************************************)
(* commands/sync.py: apply and collect.                                    *)
(*                                                                         *)
(* A run is the state it leaves and what it reported: per entry of the     *)
(* filtered list, in order, the status it came to (res), the counters of   *)
(* the summary, the exception that ended the run ("" when it returned),    *)
(* and what became of the run's backup directory: "none" (not made),       *)
(* "kept", "removed" (empty at the end of the run) or "left" (made, and    *)
(* the code that looks at it was not reached).                             *)
(***************************************************************************)
\* Config.platform of the machine the commands run on.
CurrentPlatform == "linux"

Run(f, b) ==
    [fs |-> f, bk |-> b, res |-> <<>>, applied |-> 0, skipped |-> 0,
     errored |-> 0, raised |-> "", backup |-> "none"]

\* `if force and not dry_run` with the dry run forgotten.
BackupDirWantedInDryRun(force, dry) == force

\* apply makes a backup directory: `if force and not dry_run`.
BackupDirWanted(force, dry) == force /\ ~dry

\* One turn of the loop of apply.
ApplyEntry(run, e, force, dry, useBk) ==
    IF ~Exists(run.fs, e.source)
    THEN [run EXCEPT !.res = Append(@, "source not found"), !.errored = @ + 1]
    ELSE IF dry THEN [run EXCEPT !.res = Append(@, "dry-run")]
    ELSE CHOOSE next \in
             {IF out.raised # ""
              THEN [run EXCEPT !.fs = out.fs, !.bk = out.bk,
                               !.res = Append(@, "raised"), !.raised = out.raised]
              ELSE IF out.ok
              THEN [run EXCEPT !.fs = out.fs, !.bk = out.bk,
                               !.res = Append(@, out.status), !.applied = @ + 1]
              ELSE IF out.status = "conflict" /\ ~force
              THEN [run EXCEPT !.fs = out.fs, !.bk = out.bk,
                               !.res = Append(@, out.status), !.skipped = @ + 1]
              ELSE [run EXCEPT !.fs = out.fs, !.bk = out.bk,
                               !.res = Append(@, out.status), !.errored = @ + 1] :
              out \in {IF e.type = "symlink"
                       THEN create_symlink(run.fs, run.bk, e.source, e.dest,
                                           force, useBk)
                       ELSE copy_file(run.fs, run.bk, e.source, e.dest,
                                      force, useBk)}} : TRUE

\* The loop of apply: an exception leaves it, and the command.  (The run
\* after each turn is bound as a value, so that it is computed once.)
RECURSIVE ApplyLoop(_, _, _, _, _)
ApplyLoop(run, es, force, dry, useBk) ==
    IF es = <<>> \/ run.raised # "" THEN run
    ELSE CHOOSE end \in {ApplyLoop(next, Tail(es), force, dry, useBk) :
                            next \in {ApplyEntry(run, Head(es), force, dry, useBk)}} :
            TRUE

\* any(backup_dir.iterdir()).
AnyBackup(b) == \E p \in DOMAIN b : b[p].k # "absent"

\* apply(force, dry_run) on the filesystem f, the last backup directory b and
\* the manifest document.
apply(f, b, data, force, dry) ==
    IF LoadRaised(data) # "" THEN [Run(f, b) EXCEPT !.raised = LoadRaised(data)]
    ELSE IF Load(data) = <<>> THEN Run(f, b)
    ELSE LET useBk == BackupDirWanted(force, dry) IN
         CHOOSE end \in
             {[run EXCEPT !.backup =
                  IF ~useBk THEN "none"
                  ELSE IF dry \/ run.raised # "" THEN "left"
                  ELSE IF AnyBackup(run.bk) THEN "kept"
                  ELSE "removed"] :
              run \in {ApplyLoop(Run(f, IF useBk THEN EmptyBackup ELSE b),
                                 for_platform(Load(data), CurrentPlatform),
                                 force, dry, useBk)}} : TRUE

\* The copy from home to the repository in collect, inside its try.
CollectCopy(f, e) ==
    IF IsDir(f, e.dest)
    THEN LET cleared == IF Exists(f, e.source) THEN Rmtree(f, e.source)
                        ELSE Fx(f, "") IN
         IF cleared.raised # "" THEN cleared
         ELSE Copytree(cleared.fs, e.dest, e.source)
    ELSE Copy2(f, e.dest, e.source)

\* One turn of the loop of collect.  read_bytes() of a source that is a
\* directory raises outside the try.
CollectEntry(run, e, dry) ==
    IF ~Exists(run.fs, e.dest)
    THEN [run EXCEPT !.res = Append(@, "not found"), !.skipped = @ + 1]
    ELSE IF IsSymlink(run.fs, e.dest)
    THEN [run EXCEPT !.res = Append(@, "symlink"), !.skipped = @ + 1]
    ELSE IF Exists(run.fs, e.source) /\ ~IsDir(run.fs, e.dest)
            /\ IsDir(run.fs, e.source)
    THEN [run EXCEPT !.res = Append(@, "raised"), !.raised = "IsADirectoryError"]
    ELSE IF Exists(run.fs, e.source) /\ ~IsDir(run.fs, e.dest)
            /\ SameBytes(run.fs, e.source, e.dest)
    THEN [run EXCEPT !.res = Append(@, "unchanged"), !.skipped = @ + 1]
    ELSE IF dry
    THEN [run EXCEPT !.res = Append(@, "would collect"), !.applied = @ + 1]
    ELSE LET copied == CollectCopy(run.fs, e) IN
         IF copied.raised # ""
         THEN [run EXCEPT !.fs = copied.fs, !.res = Append(@, "error")]
         ELSE [run EXCEPT !.fs = copied.fs, !.res = Append(@, "collected"),
                          !.applied = @ + 1]

RECURSIVE CollectLoop(_, _, _)
CollectLoop(run, es, dry) ==
    IF es = <<>> \/ run.raised # "" THEN run
    ELSE CHOOSE end \in {CollectLoop(next, Tail(es), dry) :
                            next \in {CollectEntry(run, Head(es), dry)}} : TRUE

\* collect(dry_run); applied counts the collected entries.
collect(f, b, data, dry) ==
    IF LoadRaised(data) # "" THEN [Run(f, b) EXCEPT !.raised = LoadRaised(data)]
    ELSE IF Load(data) = <<>> THEN Run(f, b)
    ELSE CollectLoop(Run(f, b), for_platform(Load(data), CurrentPlatform), dry)

(***************************************************************************)
(* SpecApply: a manifest document of up to MaxEntries entries, a home and  *)
(* a repository, and at most two commands out of apply and collect, the    *)
(* second one after a first that was no dry run.                           *)
(***************************************************************************)
\* The entries of the documents: one source, which the repository may lack.
ApplyEntrySet ==
    {FileEntry("s1", d, t, p) :
        d \in HomePaths, t \in Types, p \in {"none", "darwin"}}

Command(op, force, dry, run, f0, b0, doc0) ==
    [op |-> op, force |-> force, dry |-> dry, res |-> run.res,
     applied |-> run.applied, skipped |-> run.skipped, errored |-> run.errored,
     raised |-> run.raised, backup |-> run.backup,
     fs0 |-> f0, bk0 |-> b0, doc0 |-> doc0]

NoCommand ==
    Command("none", FALSE, FALSE, Run(<<>>, <<>>), <<>>, <<>>, <<>>)

InitApply ==
    /\ \E es \in SeqsUpTo(ApplyEntrySet, MaxEntries) : doc = FlatDocument(es)
    /\ \E n1 \in {Absent, File(1), Dir({<<"a", 1, 1>>}), Link("s1"), Link("s2"),
                  Link("x1")},
          n2 \in {Absent, Link("x1")},
          n3 \in {Absent, File(1), Dir({<<"a", 1, 1>>})},
          n5 \in {Absent, File(MaxContent)} :
          fs = ("a.json" :> n1) @@ ("a.yaml" :> n2) @@ ("s1" :> n3)
                  @@ ("s2" :> File(MaxContent)) @@ ("x1" :> n5)
    /\ bk = EmptyBackup
    /\ entries = <<>>
    /\ last = NoCommand
    /\ prev = NoCommand

Apply(force, dry) ==
    /\ prev.op = "none" /\ ~last.dry
    /\ \E run \in {apply(fs, bk, doc, force, dry)} :
          /\ fs' = run.fs
          /\ bk' = run.bk
          /\ last' = Command("apply", force, dry, run, fs, bk, doc)
    /\ prev' = last
    /\ UNCHANGED <<doc, entries>>

Collect(dry) ==
    /\ prev.op = "none" /\ ~last.dry
    /\ \E run \in {collect(fs, bk, doc, dry)} :
          /\ fs' = run.fs
          /\ bk' = run.bk
          /\ last' = Command("collect", FALSE, dry, run, fs, bk, doc)
    /\ prev' = last
    /\ UNCHANGED <<doc, entries>>

NextApply ==
    \/ \E force \in BOOLEAN, dry \in BOOLEAN : Apply(force, dry)
    \/ \E dry \in BOOLEAN : Collect(dry)

SpecApply == InitApply /\ [][NextApply]_vars

(***************************************************************************)
(* commands/sync.py: add, remove, diff and status.                         *)
(*                                                                         *)
(* The repository is outside the home directory (DOTFILES names it), so a  *)
(* path of the repository is never under home.  A command leaves the       *)
(* filesystem and the manifest document it wrote, what it returned (ok),   *)
(* what it reported, and the exception that ended it ("" when it           *)
(* returned).                                                              *)
(***************************************************************************)
\* The locations in the repository that add derives for the model's
\* destinations.
DerivedPaths == {"files/a.json", "files/a.yaml", "secrets/a.json", "secrets/a.yaml"}

SyncPaths == Paths \cup DerivedPaths

\* A path relative to home or to the repository is the sequence of its
\* parts; a part is its name without a leading dot, and whether it has one.
Part(dot, n) == [dot |-> dot, n |-> n]

Name(part) == IF part.dot THEN "." \o part.n ELSE part.n

\* str(path): the names of the parts joined by "/".  The filesystem of the
\* model is keyed by these strings.
RECURSIVE Str(_)
Str(parts) ==
    IF Len(parts) = 1 THEN Name(Head(parts))
    ELSE Name(Head(parts)) \o "/" \o Str(Tail(parts))

\* The paths under home that add may be given in the model: the two
\* destinations of the other specifications, a file under .config and one
\* under config, a hidden file and a file of the same name under home/.
DestParts ==
    {<<Part(FALSE, "a.json")>>, <<Part(FALSE, "a.yaml")>>,
     <<Part(TRUE, "config"), Part(FALSE, "x")>>,
     <<Part(FALSE, "config"), Part(FALSE, "x")>>,
     <<Part(TRUE, "x")>>,
     <<Part(FALSE, "home"), Part(TRUE, "x")>>}

\* Path(string).parts of a path under home.
PartsOf(p) == CHOOSE q \in DestParts : Str(q) = p

\* file_path.relative_to(Path.home()) raises ValueError unless the path is
\* under home; a home path of the model is its own path relative to home.
UnderHome(p) == \E q \in DestParts : Str(q) = p

\* "Determine source location in repo" of add, on the parts of dest.
\* str(dest).startswith(".config/") holds when the first part is .config and
\* another part follows, str(dest).startswith(".") when the first part has a
\* leading dot.
SourceParts(dest, secret) ==
    IF secret THEN <<Part(FALSE, "secrets"), dest[Len(dest)]>>
    ELSE IF Len(dest) > 1 /\ dest[1] = Part(TRUE, "config")
    THEN <<Part(FALSE, "files"), Part(FALSE, "config")>> \o Tail(dest)
    ELSE IF dest[1].dot
    THEN <<Part(FALSE, "files"), Part(FALSE, "home")>> \o dest
    ELSE <<Part(FALSE, "files")>> \o dest

\* The source location add derives from the destination.
DerivedSource(dest, secret) == Str(SourceParts(PartsOf(dest), secret))

Done(f, data, ok, report, raised) ==
    [fs |-> f, doc |-> data, ok |-> ok, report |-> report, raised |-> raised]

\* "Move or copy file to repo" of add.
AddCopy(f, file_path, source) ==
    IF IsDir(f, file_path)
    THEN LET cleared == IF Exists(f, source) THEN Rmtree(f, source)
                        ELSE Fx(f, "") IN
         IF cleared.raised # "" THEN cleared
         ELSE Copytree(cleared.fs, file_path, source)
    ELSE Copy2(f, file_path, source)

\* "If symlink type, remove original and create symlink" of add.
AddLink(f, file_path, source) ==
    LET removed == IF IsDir(f, file_path) THEN Rmtree(f, file_path)
                   ELSE Unlink(f, file_path) IN
    IF removed.raised # "" THEN removed
    ELSE SymlinkTo(removed.fs, file_path, source)

\* add of sync.py from the copy into the repository on: file_path is there
\* and under home.
AddTracked(f, data, file_path, type, secret, platform) ==
    LET dest == file_path
        source == DerivedSource(dest, secret)
        copied == AddCopy(f, file_path, source)
    IN IF copied.raised # "" THEN Done(copied.fs, data, FALSE, <<>>, copied.raised)
       ELSE LET saved == Save(add(Load(data), source, dest, type, platform)) IN
            IF type # "symlink" THEN Done(copied.fs, saved, TRUE, <<>>, "")
            ELSE LET linked == AddLink(copied.fs, file_path, source) IN
                 Done(linked.fs, saved, linked.raised = "", <<>>, linked.raised)

\* add of sync.py going on when nothing is at the resolved path.
sync_add_unchecked(f, data, file, type, secret, platform) ==
    IF LoadRaised(data) # "" THEN Done(f, data, FALSE, <<>>, LoadRaised(data))
    ELSE LET file_path == Resolve(f, file) IN
         IF ~UnderHome(file_path) THEN Done(f, data, FALSE, <<>>, "")
         ELSE AddTracked(f, data, file_path, type, secret, platform)

\* add(file, type, secret, platform) of sync.py; platform "none" is None.
sync_add(f, data, file, type, secret, platform) ==
    IF LoadRaised(data) # "" THEN Done(f, data, FALSE, <<>>, LoadRaised(data))
    ELSE LET file_path == Resolve(f, file) IN
         IF ~Exists(f, file_path) THEN Done(f, data, FALSE, <<>>, "")
         ELSE IF ~UnderHome(file_path) THEN Done(f, data, FALSE, <<>>, "")
         ELSE AddTracked(f, data, file_path, type, secret, platform)

\* remove(file) of sync.py.
sync_remove(f, data, file) ==
    IF LoadRaised(data) # "" THEN Done(f, data, FALSE, <<>>, LoadRaised(data))
    ELSE IF IndexOfDest(Load(data), file) = 0 THEN Done(f, data, FALSE, <<>>, "")
    ELSE LET saved == Save(remove(Load(data), file)) IN
         IF IsSymlink(f, file)
         THEN LET unlinked == Unlink(f, file) IN
              Done(unlinked.fs, saved, unlinked.raised = "", <<>>, unlinked.raised)
         ELSE Done(f, saved, TRUE, <<>>, "")

\* The status diff and status come to for one entry.
EntryStatus(f, e) ==
    IF ~Exists(f, e.source) THEN "missing src"
    ELSE IF e.type = "symlink" THEN check_symlink(f, e.source, e.dest)
    ELSE check_copy(f, e.source, e.dest)

\* The rows of the table of diff, over every entry of the manifest.
diff_unfiltered(f, data) ==
    IF LoadRaised(data) # "" THEN Done(f, data, FALSE, <<>>, LoadRaised(data))
    ELSE Done(f, data, TRUE,
              [i \in 1..Len(Load(data)) |-> EntryStatus(f, Load(data)[i])], "")

\* diff() of sync.py: the rows of its table, one status per filtered entry.
diff(f, data) ==
    IF LoadRaised(data) # "" THEN Done(f, data, FALSE, <<>>, LoadRaised(data))
    ELSE LET es == for_platform(Load(data), CurrentPlatform) IN
         Done(f, data, TRUE, [i \in 1..Len(es) |-> EntryStatus(f, es[i])], "")

\* status() of sync.py: the numbers it prints, <<symlinks, copies, issues>>.
sync_status(f, data) ==
    IF LoadRaised(data) # "" THEN Done(f, data, FALSE, <<>>, LoadRaised(data))
    ELSE LET es == for_platform(Load(data), CurrentPlatform) IN
         Done(f, data, TRUE,
              <<Cardinality({i \in 1..Len(es) : es[i].type = "symlink"}),
                Cardinality({i \in 1..Len(es) : es[i].type = "copy"}),
                Cardinality({i \in 1..Len(es) : EntryStatus(f, es[i]) # "ok"})>>,
              "")

(***************************************************************************)
(* SpecSync: one command (add, remove, diff, status, apply or collect) on  *)
(* a manifest document that lists distinct entries, is absent or is        *)
(* malformed, and on a home and a repository where a derived location may  *)
(* already hold something.                                                 *)
(***************************************************************************)
\* Two entries share the source s1, two the dest of each home path, one is of
\* another platform.
SyncEntrySet ==
    {FileEntry("s1", "a.json", "symlink", "none"),
     FileEntry("s1", "a.yaml", "symlink", "none"),
     FileEntry("files/a.json", "a.json", "copy", "none"),
     FileEntry("files/a.json", "a.yaml", "copy", "darwin")}

\* The sequences of distinct elements of S.
DistinctSeqs(S) ==
    {q \in SeqsUpTo(S, Cardinality(S)) :
        \A i, j \in 1..Len(q) : i # j => q[i] # q[j]}

\* Documents Manifest.load cannot load: a text that is no yaml, a top-level
\* sequence, an item without `source`, an item without `dest`.
MalformedDocuments ==
    {[FlatDocument(<<>>) EXCEPT !.top = "unparsable", !.keys = {}],
     [FlatDocument(<<>>) EXCEPT !.top = "sequence", !.keys = {}],
     FlatDocument(<<FileEntry("none", "a.json", "symlink", "none")>>),
     FlatDocument(<<FileEntry("s1", "a.json", "copy", "none"),
                    FileEntry("s1", "none", "copy", "none")>>)}

SyncCall(op, file, type, secret, platform, out, f0, doc0) ==
    [op |-> op, file |-> file, type |-> type, secret |-> secret,
     platform |-> platform, force |-> FALSE, dry |-> FALSE,
     ok |-> out.ok, report |-> out.report, raised |-> out.raised,
     fs0 |-> f0, doc0 |-> doc0]

InitSync ==
    /\ doc \in {NoDocument} \cup MalformedDocuments
                  \cup {FlatDocument(es) : es \in DistinctSeqs(SyncEntrySet)}
    /\ \E n1 \in {Absent, File(1), Dir({<<"a", 1, 1>>}), Link("s1"), Link("x1"),
                  Link("a.yaml")},
          n2 \in {Absent, File(MaxContent)},
          n5 \in {Absent, File(MaxContent)},
          n6 \in {Absent, File(MaxContent), Dir({<<"b", 1, 1>>}), Link("x1")} :
          fs = ("a.json" :> n1) @@ ("a.yaml" :> n2) @@ ("s1" :> File(1))
                  @@ ("s2" :> Absent) @@ ("x1" :> n5) @@ ("files/a.json" :> n6)
                  @@ [p \in DerivedPaths \ {"files/a.json"} |-> Absent]
    /\ bk = EmptyBackup
    /\ entries = <<>>
    /\ last = NoCommand
    /\ prev = NoCommand

SyncAdd(file, type, secret, platform) ==
    /\ last.op = "none"
    /\ \E out \in {sync_add(fs, doc, file, type, secret, platform)} :
          /\ fs' = out.fs
          /\ doc' = out.doc
          /\ last' = SyncCall("add", file, type, secret, platform, out, fs, doc)
    /\ UNCHANGED <<bk, entries, prev>>

SyncRemove(file) ==
    /\ last.op = "none"
    /\ \E out \in {sync_remove(fs, doc, file)} :
          /\ fs' = out.fs
          /\ doc' = out.doc
          /\ last' = SyncCall("remove", file, "", FALSE, "", out, fs, doc)
    /\ UNCHANGED <<bk, entries, prev>>

SyncDiff ==
    /\ last.op = "none"
    /\ \E out \in {diff(fs, doc)} :
          /\ fs' = out.fs
          /\ doc' = out.doc
          /\ last' = SyncCall("diff", "", "", FALSE, "", out, fs, doc)
    /\ UNCHANGED <<bk, entries, prev>>

SyncStatus ==
    /\ last.op = "none"
    /\ \E out \in {sync_status(fs, doc)} :
          /\ fs' = out.fs
          /\ doc' = out.doc
          /\ last' = SyncCall("status", "", "", FALSE, "", out, fs, doc)
    /\ UNCHANGED <<bk, entries, prev>>

NextSync ==
    \/ \E file \in HomePaths \cup OtherPaths, type \in Types, secret \in BOOLEAN,
          platform \in {"none", "darwin"} : SyncAdd(file, type, secret, platform)
    \/ \E file \in HomePaths : SyncRemove(file)
    \/ SyncDiff
    \/ SyncStatus
    \/ last.op = "none" /\ NextApply

SpecSync == InitSync /\ [][NextSync]_vars

(***************************************************************************)
(* SpecAdd: up to two calls of add, one after the other, on a home that    *)
(* holds regular files at paths of every class add knows (under .config,   *)
(* hidden, others) and an empty repository.  The directories above a path  *)
(* are no nodes of the model: add makes them where they are missing.       *)
(***************************************************************************)
AddHomePaths == {Str(q) : q \in DestParts} \ HomePaths

AddRepoPaths == {DerivedSource(d, secret) : d \in AddHomePaths, secret \in BOOLEAN}

InitAdd ==
    /\ \E home \in [AddHomePaths -> {Absent} \cup {File(c) : c \in Contents}] :
          fs = home @@ [p \in AddRepoPaths |-> Absent]
    /\ doc = NoDocument
    /\ bk = EmptyBackup
    /\ entries = <<>>
    /\ last = NoCommand
    /\ prev = NoCommand

AddFile(file, type, secret) ==
    /\ prev.op = "none"
    /\ \E out \in {sync_add(fs, doc, file, type, secret, "none")} :
          /\ fs' = out.fs
          /\ doc' = out.doc
          /\ last' = SyncCall("add", file, type, secret, "none", out, fs, doc)
    /\ prev' = last
    /\ UNCHANGED <<bk, entries>>

NextAdd ==
    \E file \in AddHomePaths, type \in Types, secret \in BOOLEAN :
        AddFile(file, type, secret)

SpecAdd == InitAdd /\ [][NextAdd]_vars

(***************************************************************************)
(* SpecAddSteps: one call of add, step by step.  After its checks add      *)
(* copies the file into the repository, saves the manifest, and for a      *)
(* symlink removes the original and creates the link; the process may stop *)
(* between two steps, and a step that raises ends the call.  `steps` lists *)
(* the steps that have completed.                                          *)
(***************************************************************************)
\* The step that follows a step, should it come before the others.
StepAfterRemoveEarly(pc, type) ==
    CASE pc = "copy" -> IF type = "symlink" THEN "remove" ELSE "save"
      [] pc = "remove" -> "save"
      [] pc = "save" -> IF type = "symlink" THEN "link" ELSE "done"
      [] pc = "link" -> "done"

\* The step that follows a completed step of add: "Move or copy file to
\* repo", "Add to manifest", and "If symlink type, remove original and
\* create symlink".
StepAfter(pc, type) ==
    CASE pc = "copy" -> "save"
      [] pc = "save" -> IF type = "symlink" THEN "remove" ELSE "done"
      [] pc = "remove" -> "link"
      [] pc = "link" -> "done"

StepCall(op, file, type, secret, pc, steps, raised, f0, doc0) ==
    [op |-> op, file |-> file, type |-> type, secret |-> secret, pc |-> pc,
     steps |-> steps, raised |-> raised, fs0 |-> f0, doc0 |-> doc0]

\* The documents add is called with: none, one that load cannot read, one
\* that tracks the file already, one with two entries that share a source.
StepDocuments ==
    {NoDocument,
     FlatDocument(<<FileEntry("none", "a.json", "symlink", "none")>>),
     FlatDocument(<<FileEntry("s1", "a.json", "copy", "none")>>),
     FlatDocument(<<FileEntry("files/a.json", "a.json", "copy", "none"),
                    FileEntry("files/a.json", "a.yaml", "copy", "none")>>)}

InitAddSteps ==
    /\ doc \in StepDocuments
    /\ \E n1 \in {Absent, Dir({<<"a", 1, 1>>}), Link("x1"), Link("a.yaml")}
                      \cup {File(c) : c \in Contents},
          n2 \in {Absent, File(MaxContent)},
          n5 \in {Absent, File(MaxContent)},
          n6 \in {Absent, File(MaxContent), Dir({<<"b", 1, 1>>}), Link("x1"),
                  Link("a.json")} :
          fs = ("a.json" :> n1) @@ ("a.yaml" :> n2) @@ ("s1" :> File(1))
                  @@ ("s2" :> Absent) @@ ("x1" :> n5) @@ ("files/a.json" :> n6)
                  @@ [p \in DerivedPaths \ {"files/a.json"} |-> Absent]
    /\ bk = EmptyBackup
    /\ entries = <<>>
    /\ last = StepCall("none", "", "", FALSE, "idle", <<>>, "", <<>>, <<>>)
    /\ prev = NoCommand

\* The path add works on: Path(file).expanduser().resolve() at the call.
FilePath(call) == Resolve(call.fs0, call.file)

\* The source location of the call.
SourcePath(call) == DerivedSource(FilePath(call), call.secret)

\* add up to "Create parent directories": the manifest is loaded and the
\* path checked.
AddBegin(file, type, secret) ==
    /\ last.op = "none"
    /\ last' = StepCall("add", file, type, secret,
                        IF LoadRaised(doc) # "" THEN "raised"
                        ELSE IF ~Exists(fs, Resolve(fs, file)) THEN "rejected"
                        ELSE IF ~UnderHome(Resolve(fs, file)) THEN "rejected"
                        ELSE "copy",
                        <<>>, LoadRaised(doc), fs, doc)
    /\ UNCHANGED <<fs, bk, doc, entries, prev>>

\* The end of a step: the next one, or the exception that ends the call.
StepDone(raised) ==
    last' = [last EXCEPT !.pc = IF raised # "" THEN "raised"
                                ELSE StepAfter(last.pc, last.type),
                         !.steps = IF raised # "" THEN @ ELSE Append(@, last.pc),
                         !.raised = raised]

AddCopyStep ==
    /\ last.pc = "copy"
    /\ \E copied \in {AddCopy(fs, FilePath(last), SourcePath(last))} :
          /\ fs' = copied.fs
          /\ StepDone(copied.raised)
    /\ UNCHANGED <<bk, doc, entries, prev>>

AddSaveStep ==
    /\ last.pc = "save"
    /\ doc' = Save(add(Load(last.doc0), SourcePath(last), FilePath(last),
                       last.type, "none"))
    /\ StepDone("")
    /\ UNCHANGED <<fs, bk, entries, prev>>

AddRemoveStep ==
    /\ last.pc = "remove"
    /\ \E removed \in {IF IsDir(fs, FilePath(last)) THEN Rmtree(fs, FilePath(last))
                        ELSE Unlink(fs, FilePath(last))} :
          /\ fs' = removed.fs
          /\ StepDone(removed.raised)
    /\ UNCHANGED <<bk, doc, entries, prev>>

AddLinkStep ==
    /\ last.pc = "link"
    /\ \E linked \in {SymlinkTo(fs, FilePath(last), SourcePath(last))} :
          /\ fs' = linked.fs
          /\ StepDone(linked.raised)
    /\ UNCHANGED <<bk, doc, entries, prev>>

\* The process is ended between two steps.
AddCrash ==
    /\ last.pc \in {"copy", "save", "remove", "link"}
    /\ last' = [last EXCEPT !.pc = "crashed"]
    /\ UNCHANGED <<fs, bk, doc, entries, prev>>

NextAddSteps ==
    \/ \E file \in HomePaths \cup OtherPaths, type \in Types, secret \in BOOLEAN :
          AddBegin(file, type, secret)
    \/ AddCopyStep
    \/ AddSaveStep
    \/ AddRemoveStep
    \/ AddLinkStep
    \/ AddCrash

SpecAddSteps == InitAddSteps /\ [][NextAddSteps]_vars

(***************************************************************************)
(* Properties of the reconcilers (SpecCreate).                             *)
(***************************************************************************)
IsCreate(call) == call.op \in {"create_symlink", "copy_file"}

\* The check that belongs to a create call, on the state before the call.
CheckBefore(call) ==
    IF call.op = "create_symlink"
    THEN check_symlink(call.fs0, call.source, call.dest)
    ELSE check_copy(call.fs0, call.source, call.dest)

\* C2 (no silent clobber): a create without force on a destination that is
\* there (a regular file, a directory or a symlink, a dangling one included)
\* and does not already represent the source returns (false, "conflict") and
\* changes nothing, neither the destination nor what it points to.
C2_NoSilentClobber ==
    (/\ IsCreate(last)
     /\ ~last.force
     /\ last.fs0[last.dest].k # "absent"
     /\ CheckBefore(last) # "ok")
    => (/\ last.raised = ""
        /\ ~last.ok
        /\ last.status = "conflict"
        /\ fs = last.fs0
        /\ bk = last.bk0)

\* A create call that replaced or changed a destination that was there.
Overwrote(call) ==
    /\ IsCreate(call)
    /\ call.fs0[call.dest].k # "absent"
    /\ \/ call.ok /\ call.status \in {"created", "copied"}
       \/ fs # call.fs0

\* C3 as stated (round trip via backup): after a forced create with a backup
\* directory has overwritten a destination (file, directory or symlink), what
\* the destination held is in the backup directory at the destination's path
\* relative to home.
C3_BackupHoldsDestination ==
    (Overwrote(last) /\ last.force /\ last.useBk /\ Exists(last.fs0, last.dest))
    => bk[last.dest] = NodeAt(last.fs0, last.dest)

\* C3 as amended: after a forced create with an empty backup directory has
\* overwritten or changed a destination, also when the call ended in an
\* exception: a regular file or a directory is in the backup directory, as it
\* was, at the destination's path relative to home; for a symlink, copy_file
\* backs up there what the link resolved to, and create_symlink writes only
\* the link's resolved target as text ("broken" for a dangling link) at that
\* path with its suffix replaced by .symlink.
C3_BackupRoundTrip ==
    (Overwrote(last) /\ last.force /\ last.useBk)
    => LET d == last.dest
           old == last.fs0[d] IN
       IF old.k # "link" THEN bk[d] = old
       ELSE IF last.op = "copy_file" THEN bk[d] = NodeAt(last.fs0, d)
       ELSE /\ bk[WithSuffixSymlink(d)] =
                 Text(IF Exists(last.fs0, d) THEN Resolve(last.fs0, d) ELSE "broken")
            /\ bk[d] = Absent

\* A forced create_symlink with a backup directory replaced a directory by
\* the link: the call returned and the backup holds the directory.
C3_Witness ==
    /\ Overwrote(last) /\ last.force /\ last.useBk /\ last.ok
    /\ last.op = "create_symlink"
    /\ last.fs0[last.dest].k = "dir"
    /\ fs[last.dest] = Link(last.source)
    /\ bk[last.dest] = last.fs0[last.dest]

\* C10 (symlink check decision table): check_symlink returns "missing" when
\* nothing is at dest, "conflict" when dest is a regular file or a directory,
\* "ok" when dest is a symlink resolving to the path the source resolves to,
\* and "wrong" when dest is a symlink resolving to another path that exists.
C10_CheckSymlinkTable ==
    last.op = "check_symlink" =>
        LET d == last.dest
            node == fs[d] IN
        /\ node.k = "absent" => last.status = "missing"
        /\ node.k \in {"file", "dir"} => last.status = "conflict"
        /\ (node.k = "link" /\ Resolve(fs, d) = Resolve(fs, last.source))
              => last.status = "ok"
        /\ (node.k = "link" /\ Resolve(fs, d) # Resolve(fs, last.source)
              /\ Exists(fs, d)) => last.status = "wrong"

\* A chain of two links ends at the source and the check says "ok".
C10_Witness ==
    /\ last.op = "check_symlink"
    /\ last.status = "ok"
    /\ fs[last.dest].k = "link"
    /\ fs[last.dest].t # last.source

\* C11 (a dangling symlink is reported as broken): when dest is a symlink
\* whose target does not exist, check_symlink returns "broken", not "wrong"
\* or "missing".
C11_DanglingIsBroken ==
    (/\ last.op = "check_symlink"
     /\ fs[last.dest].k = "link"
     /\ ~Exists(fs, last.dest))
    => last.status = "broken"

\* The names of the members of a directory.
Names(e) == {m[1] : m \in e}

\* C21 as stated (copy check semantics): check_copy returns "missing" when
\* dest is absent; for a file source and a file dest "ok" exactly when their
\* bytes are equal, else "changed"; for a directory source and a directory
\* dest "ok" exactly when both hold the same set of names and no common file
\* differs, else "changed"; and "changed" for a file against a directory.
C21_CheckCopyTable ==
    last.op = "check_copy" =>
        LET s == NodeAt(fs, last.source)
            d == NodeAt(fs, last.dest)
        IN /\ fs[last.dest].k = "absent" => last.status = "missing"
           /\ (s.k = "file" /\ d.k = "file") =>
                 last.status = IF s.c = d.c THEN "ok" ELSE "changed"
           /\ (s.k = "dir" /\ d.k = "dir") =>
                 last.status =
                     IF /\ Names(s.e) = Names(d.e)
                        /\ \A x \in s.e, y \in d.e : x[1] = y[1] => x[2] = y[2]
                     THEN "ok" ELSE "changed"
           /\ (s.k = "file" /\ d.k = "dir") => last.status = "changed"
           /\ (s.k = "dir" /\ d.k = "file") => last.status = "changed"

\* C21 as amended: as stated for an absent dest, for two files and for a
\* file against a directory; for two directories the comparison is shallow:
\* "ok" exactly when, apart from the names filecmp ignores, both hold the
\* same set of names and no common file differs in size, or in both its
\* modification time and its bytes (two files of the same size and
\* modification time are taken to be equal, unread), else "changed".
C21_CheckCopyShallow ==
    last.op = "check_copy" =>
        LET s == NodeAt(fs, last.source)
            d == NodeAt(fs, last.dest)
            seen(e) == {m \in e : m[1] \notin DefaultIgnores}
            differ(x, y) == \/ Size(x[2]) # Size(y[2])
                            \/ x[3] # y[3] /\ x[2] # y[2]
        IN /\ fs[last.dest].k = "absent" => last.status = "missing"
           /\ (s.k = "file" /\ d.k = "file") =>
                 last.status = IF s.c = d.c THEN "ok" ELSE "changed"
           /\ (s.k = "dir" /\ d.k = "dir") =>
                 last.status =
                     IF /\ Names(seen(s.e)) = Names(seen(d.e))
                        /\ \A x \in seen(s.e), y \in seen(d.e) :
                              x[1] = y[1] => ~differ(x, y)
                     THEN "ok" ELSE "changed"
           /\ (s.k = "file" /\ d.k = "dir") => last.status = "changed"
           /\ (s.k = "dir" /\ d.k = "file") => last.status = "changed"

\* check_copy said "ok" for two directories whose file of the same name has
\* the same size and modification time and other bytes.
C21_Witness ==
    /\ last.op = "check_copy" /\ last.status = "ok"
    /\ fs[last.source].k = "dir" /\ fs[last.dest].k = "dir"
    /\ \E x \in fs[last.source].e, y \in fs[last.dest].e :
          x[1] = y[1] /\ x[3] = y[3] /\ Size(x[2]) = Size(y[2]) /\ x[2] # y[2]

\* C22 (forced symlink creation never recurses through a symlink): when
\* create_symlink with force finds at dest a symlink to a directory that is
\* not the source, it removes only the link: the directory and its contents
\* are as they were; a directory is removed only when dest itself is one.
\* In both cases dest ends as a symlink to source, the result is
\* (true, "created"), and no other path changes.
C22_NoRecursionThroughLink ==
    (/\ last.op = "create_symlink" /\ last.force
     /\ IsDir(last.fs0, last.dest)
     /\ Resolve(last.fs0, last.dest) # Resolve(last.fs0, last.source))
    => (/\ last.raised = "" /\ last.ok /\ last.status = "created"
        /\ fs = [last.fs0 EXCEPT ![last.dest] = Link(last.source)])

\* A forced create_symlink replaced a symlink to a directory that holds a
\* file: the directory is still there, with the file.
C22_Witness ==
    /\ last.op = "create_symlink" /\ last.force /\ last.ok
    /\ last.fs0[last.dest].k = "link"
    /\ IsDir(last.fs0, last.dest)
    /\ fs[last.dest] = Link(last.source)
    /\ fs[Resolve(last.fs0, last.dest)].k = "dir"
    /\ fs[Resolve(last.fs0, last.dest)].e # {}
    /\ Resolve(last.fs0, last.dest) # last.source

\* C25 (the status vocabulary is partitioned by reconciler): whatever is
\* at the source and at the destination, check_symlink returns one of ok,
\* missing, conflict, wrong, broken and never "changed", and check_copy
\* returns one of ok, missing, changed and never "wrong" or "broken".
C25_StatusVocabulary ==
    /\ last.op = "check_symlink" =>
          last.status \in {"ok", "missing", "conflict", "wrong", "broken"}
    /\ last.op = "check_copy" => last.status \in {"ok", "missing", "changed"}

\* check_copy said "changed" of a destination of which check_symlink says
\* "wrong": a symlink to a directory, the source being a file.
C25_Witness ==
    /\ last.op = "check_copy" /\ last.status = "changed"
    /\ fs[last.dest].k = "link"
    /\ IsDir(fs, last.dest) /\ IsFile(fs, last.source)
    /\ check_symlink(fs, last.source, last.dest) = "wrong"

\* C26 (create establishes ok): whatever the destination was (absent, a
\* regular file, a directory, a symlink to a file or to a directory, a
\* dangling symlink), whenever create returns success with "created",
\* "copied" or "ok", the matching check of source and dest right after it
\* says "ok", and nothing but dest (and the backup directory) was modified.
C26_CreateEstablishesOk ==
    (/\ IsCreate(last) /\ last.raised = "" /\ last.ok
     /\ last.status \in {"created", "copied", "ok"})
    => (/\ (IF last.op = "create_symlink"
            THEN check_symlink(fs, last.source, last.dest)
            ELSE check_copy(fs, last.source, last.dest)) = "ok"
        /\ \A p \in Paths \ {last.dest} : fs[p] = last.fs0[p])

(***************************************************************************)
(* Properties of the manifest store (SpecManifest).                        *)
(***************************************************************************)
\* add or remove has just saved the manifest.
JustSaved == last.op = "add" \/ (last.op = "remove" /\ last.found)

\* C5 (every mutation is persisted faithfully): after add or remove, loading
\* the document gives exactly the entries in memory, the same tuples in the
\* same order.
C5_PersistedFaithfully == JustSaved => Load(doc) = entries

\* C6 (save writes only the flat shape): a document written by save has the
\* top-level `entries` list and none of the legacy keys `symlinks`, `copies`,
\* `platform`.
C6_SaveWritesFlatShape ==
    JustSaved =>
        /\ "entries" \in doc.keys
        /\ doc.keys \cap {"symlinks", "copies", "platform"} = {}

DestUnique(es) ==
    \A i, j \in 1..Len(es) : i # j => es[i].dest # es[j].dest

\* C7 as stated (dest uniqueness is an invariant): in every manifest loaded
\* from a document of either shape and changed by add and remove, no two
\* entries have the same dest.
C7_DestUniqueAlways == DestUnique(entries)

\* C7 as amended: load, add and remove keep dests unique: when no two entries
\* of the manifest in memory share a dest before a call, none do after it.
\* (A document that lists a dest twice is loaded as it is.)
C7_DestUniquePreserved == [][DestUnique(entries) => DestUnique(entries)']_vars

\* add met a dest the manifest of two entries already held, as its second
\* entry, and the dests are still distinct.
C7_Witness ==
    /\ last.op = "add" /\ last.found
    /\ Len(entries) = 2
    /\ IndexOfDest(last.entries0, last.dest) = 2
    /\ DestUnique(last.entries0)
    /\ DestUnique(entries)

\* C8 (add is an upsert by dest): when an entry with the dest is there, add
\* keeps the number of entries and that entry's place and sets its source,
\* type and platform; when none is, it appends exactly one entry; every other
\* entry is unchanged.
C8_AddIsUpsert ==
    last.op = "add" =>
        LET es0 == last.entries0
            new == FileEntry(last.source, last.dest, last.type, last.platform)
            holders == {i \in 1..Len(es0) : es0[i].dest = last.dest}
        IN IF holders # {}
           THEN /\ Len(entries) = Len(es0)
                /\ \E i \in holders :
                      /\ entries[i] = new
                      /\ \A j \in 1..Len(es0) : j # i => entries[j] = es0[j]
           ELSE /\ Len(entries) = Len(es0) + 1
                /\ entries[Len(entries)] = new
                /\ \A j \in 1..Len(es0) : entries[j] = es0[j]

\* add replaced the source, type and platform of the second of two entries.
C8_Witness ==
    /\ last.op = "add" /\ last.found
    /\ Len(entries) = 2
    /\ entries[2].dest = last.dest
    /\ last.entries0[2].source # entries[2].source
    /\ last.entries0[2].type # entries[2].type
    /\ last.entries0[2].platform # entries[2].platform
    /\ entries[1] = last.entries0[1]

\* C9 (platform filtering): for_platform(p) returns exactly the entries with
\* no platform or with platform p, in manifest order, and changes neither the
\* manifest nor its document.
C9_ForPlatform ==
    last.op = "for_platform" =>
        LET keep == {i \in 1..Len(entries) :
                        entries[i].platform \in {"none", last.platform}}
        IN /\ Len(last.result) = Cardinality(keep)
           /\ \A i \in keep :
                 last.result[Cardinality({j \in keep : j <= i})] = entries[i]
           /\ entries = last.entries0
           /\ doc = last.doc0

\* for_platform dropped an entry of another platform and kept an untagged one
\* that follows it.
C9_Witness ==
    /\ last.op = "for_platform"
    /\ Len(entries) = 2
    /\ entries[1].platform \notin {"none", last.platform}
    /\ entries[2].platform = "none"
    /\ last.result = <<entries[2]>>

(***************************************************************************)
(* Properties of Manifest.load (SpecLoad).                                 *)
(***************************************************************************)
\* The entries a legacy mapping source -> dest stands for, as a set.
SectionEntries(pairs, type, platform) ==
    {FileEntry(pairs[i][1], pairs[i][2], type, platform) : i \in 1..Len(pairs)}

\* C24 (load accepts both shapes and nothing else matters): load returns an
\* empty manifest when the document is absent or empty; when the document
\* has an `entries` key, one entry per item of the list (each with its
\* source and dest), in the order of the list, the kind defaulting to
\* symlink and the platform to none, whatever the legacy keys hold;
\* otherwise the entries of the legacy `symlinks`, then `copies`, then
\* per-platform mappings, with the matching kind and platform; keys it does
\* not know change nothing and load does not fail.
C24_LoadBothShapes ==
    (/\ last.op = "load"
     /\ \A i \in 1..Len(doc.entries) :
           doc.entries[i].source # "none" /\ doc.entries[i].dest # "none")
    => LET items == doc.entries
           sy == IF "symlinks" \in doc.keys THEN doc.symlinks ELSE <<>>
           co == IF "copies" \in doc.keys THEN doc.copies ELSE <<>>
           pl == IF "platform" \in doc.keys THEN doc.platform ELSE <<>>
           n == Len(sy) + Len(co)
       IN /\ last.raised = ""
          /\ (~doc.exists \/ doc.keys \cap KnownKeys = {}) => entries = <<>>
          /\ "entries" \in doc.keys =>
                /\ Len(entries) = Len(items)
                /\ \A i \in 1..Len(items) :
                      /\ entries[i].source = items[i].source
                      /\ entries[i].dest = items[i].dest
                      /\ entries[i].type = IF items[i].type = "none" THEN "symlink"
                                           ELSE items[i].type
                      /\ entries[i].platform = items[i].platform
                      /\ DOMAIN entries[i] = {"source", "dest", "type", "platform"}
          /\ (doc.exists /\ "entries" \notin doc.keys) =>
                /\ \A i \in 1..Len(sy) :
                      entries[i] = FileEntry(sy[i][1], sy[i][2], "symlink", "none")
                /\ \A i \in 1..Len(co) :
                      entries[Len(sy) + i] =
                          FileEntry(co[i][1], co[i][2], "copy", "none")
                /\ Len(entries) = n + Cardinality({<<i, k, j>> \in
                        (1..Len(pl)) \X {"s", "c"} \X (1..2) :
                            j <= Len(IF k = "s" THEN pl[i][2].symlinks
                                     ELSE pl[i][2].copies)})
                /\ {entries[i] : i \in (n + 1)..Len(entries)} =
                      UNION {SectionEntries(pl[i][2].symlinks, "symlink", pl[i][1])
                                \cup SectionEntries(pl[i][2].copies, "copy", pl[i][1]) :
                             i \in 1..Len(pl)}

\* load read a document that has `entries`, legacy keys that hold something
\* and a key it does not know; an item has no `type` and one a key load does
\* not know: two entries, the legacy mappings left out.
C24_Witness ==
    /\ last.op = "load" /\ last.raised = ""
    /\ {"entries", "symlinks", "platform", "version"} \subseteq doc.keys
    /\ doc.symlinks # <<>> /\ doc.platform # <<>>
    /\ Len(entries) = 2
    /\ doc.entries[1].type = "none" /\ entries[1].type = "symlink"
    /\ doc.entries[2].note # "none"

(***************************************************************************)
(* Properties of apply and collect (SpecApply).                            *)
(***************************************************************************)
\* The statuses with which create reports success.
Succeeded(status) == status \in {"ok", "created", "copied"}

\* The last two commands were apply(force=false, dry_run=false), one right
\* after the other.
AppliedTwice ==
    /\ prev.op = "apply" /\ ~prev.force /\ ~prev.dry
    /\ last.op = "apply" /\ ~last.force /\ ~last.dry

\* C1 (idempotence of apply): when apply(force=false, dryRun=false) is run
\* twice in a row, every entry whose create succeeded in the first run has
\* status "ok" in the second, and the second run changes nothing.
C1_ApplyIdempotent ==
    AppliedTwice =>
        /\ \A i \in 1..Len(prev.res) :
              Succeeded(prev.res[i]) => (i <= Len(last.res) /\ last.res[i] = "ok")
        /\ fs = last.fs0
        /\ bk = last.bk0

\* C4 (a dry run changes nothing): apply(force=any, dryRun=true) and
\* collect(dryRun=true) leave home, the repository, the backups and the
\* manifest document as they were, and make no backup directory.
C4_DryRunNoMutation ==
    (last.op \in {"apply", "collect"} /\ last.dry) =>
        /\ fs = last.fs0
        /\ bk = last.bk0
        /\ doc = last.doc0
        /\ last.backup = "none"

\* A forced dry run of apply went through two entries that the same apply
\* without dry run would have changed the home for.
C4_Witness ==
    /\ last.op = "apply" /\ last.dry /\ last.force
    /\ last.res = <<"dry-run", "dry-run">>
    /\ apply(fs, bk, doc, TRUE, FALSE).fs # fs
    /\ apply(fs, bk, doc, TRUE, FALSE).backup = "kept"

\* An apply that was no dry run and whose manifest document could be loaded.
RealApply == last.op = "apply" /\ ~last.dry /\ LoadRaised(last.doc0) = ""

\* The entries apply went over: those of the document for this platform.
Filtered(data) == for_platform(Load(data), CurrentPlatform)

\* C12 (per-entry error isolation in apply): a create that fails with a
\* filesystem error does not end the run: no exception leaves apply, every
\* entry of the filtered list is processed, the failed one counted as
\* errored, and the code after the loop (summary, cleanup of the backup
\* directory) is reached.
C12_ErrorIsolation ==
    RealApply =>
        /\ last.raised = ""
        /\ Len(last.res) = Len(Filtered(last.doc0))
        /\ last.backup # "left"

\* C14 (aggregate counts of apply): every filtered entry is counted once, as
\* applied (create returned ok, created or copied), skipped (conflict without
\* force) or errored (anything else), so the three counts add up to the
\* number of filtered entries; a single symlink entry whose source is there
\* and whose destination is absent gives 1 applied, 0 skipped, 0 errored and
\* a symlink to the source at the destination.
C14_CountsAddUp ==
    RealApply =>
        LET es == Filtered(last.doc0)
            n == Len(es)
            hit == {i \in 1..n : i <= Len(last.res) /\ Succeeded(last.res[i])}
            conflict == {i \in 1..n : /\ i <= Len(last.res)
                                      /\ last.res[i] = "conflict"
                                      /\ ~last.force}
        IN /\ last.applied + last.skipped + last.errored = n
           /\ last.applied = Cardinality(hit)
           /\ last.skipped = Cardinality(conflict)
           /\ (/\ n = 1 /\ es[1].type = "symlink"
               /\ Exists(last.fs0, es[1].source)
               /\ last.fs0[es[1].dest].k = "absent")
              => (/\ last.applied = 1 /\ last.skipped = 0 /\ last.errored = 0
                  /\ fs[es[1].dest] = Link(es[1].source))

\* C15 (one backup directory per forced apply, never left empty): apply
\* without force or as a dry run makes no backup directory and writes no
\* backup; after apply(force=true, dryRun=false) the run's backup directory
\* is there exactly when a backup was written into it.
C15_BackupDirectory ==
    (last.op = "apply" /\ LoadRaised(last.doc0) = "") =>
        IF ~last.force \/ last.dry
        THEN last.backup = "none" /\ bk = last.bk0
        ELSE last.backup # "none" =>
                 (last.backup \in {"kept", "left"} <=> AnyBackup(bk))

\* C16 (collect is a one-way overwrite with three skip rules), for a run
\* over one filtered entry: the entry is skipped, and nothing changes,
\* exactly when its destination is absent, is a symlink, or holds the same
\* content as the source (two files with the same bytes, two directories
\* with the same members); otherwise the source holds the destination's
\* content after the run, the entry is counted as collected and the
\* destination is as it was.
C16_CollectSkipRules ==
    (/\ last.op = "collect" /\ ~last.dry
     /\ LoadRaised(last.doc0) = ""
     /\ Len(Filtered(last.doc0)) = 1)
    => LET e == Filtered(last.doc0)[1]
           f0 == last.fs0
           skip == \/ ~Exists(f0, e.dest)
                   \/ IsSymlink(f0, e.dest)
                   \/ NodeAt(f0, e.source) = NodeAt(f0, e.dest)
       IN IF skip
          THEN /\ last.raised = ""
               /\ last.skipped = 1 /\ last.applied = 0
               /\ fs = f0
          ELSE /\ last.raised = ""
               /\ last.applied = 1 /\ last.skipped = 0
               /\ NodeAt(fs, e.source) = NodeAt(f0, e.dest)
               /\ fs[e.dest] = f0[e.dest]

(***************************************************************************)
(* Properties of add, remove, diff and status (SpecSync).                  *)
(***************************************************************************)
\* C13 (a malformed manifest does not crash): when the document is there
\* but cannot be loaded (unparsable, no mapping at the top, an item without
\* source or dest), the command that loaded it ends without an unhandled
\* exception.
C13_MalformedHandled ==
    (last.op # "none" /\ LoadRaised(last.doc0) # "") => last.raised = ""

\* The entries of a sequence as a set.
Range(es) == {es[i] : i \in 1..Len(es)}

\* C17 (orchestration remove): remove(dest) of a dest no entry has fails and
\* changes neither the document nor the filesystem; for a tracked dest it
\* succeeds, the document then holds the entries it held before but one
\* entry with that dest, the home destination is deleted when it is a
\* symlink, and nothing else in home or in the repository changes.
C17_Remove ==
    (last.op = "remove" /\ LoadRaised(last.doc0) = "") =>
        LET es0 == Load(last.doc0)
            d == last.file
            f0 == last.fs0
        IN IF \A i \in 1..Len(es0) : es0[i].dest # d
           THEN ~last.ok /\ fs = f0 /\ doc = last.doc0
           ELSE /\ last.ok
                /\ Len(Load(doc)) = Len(es0) - 1
                /\ \E i \in 1..Len(es0) :
                      /\ es0[i].dest = d
                      /\ Range(Load(doc)) = {es0[j] : j \in 1..Len(es0) \ {i}}
                /\ fs = IF f0[d].k = "link" THEN [f0 EXCEPT ![d] = Absent] ELSE f0

\* C18 (postcondition of add by kind): after a successful add of a file or
\* directory under home, the derived source location holds its content and
\* the document holds the entry (source, dest, kind, platform); for kind
\* symlink the home path is a symlink to the source and check_symlink says
\* "ok"; for kind copy the home path is as it was and check_copy says "ok".
C18_AddPostcondition ==
    (last.op = "add" /\ last.ok) =>
        LET f0 == last.fs0
            dest == Resolve(f0, last.file)
            source == DerivedSource(dest, last.secret)
        IN /\ NodeAt(fs, source) = f0[dest]
           /\ FileEntry(source, dest, last.type, last.platform) \in Range(Load(doc))
           /\ last.type = "symlink" =>
                 (fs[dest] = Link(source) /\ check_symlink(fs, source, dest) = "ok")
           /\ last.type = "copy" =>
                 (fs[dest] = f0[dest] /\ check_copy(fs, source, dest) = "ok")

\* C19 (add rejects what is missing or outside home): add of a path that
\* does not exist, or that resolves to a path outside home, does not succeed
\* and changes neither the filesystem nor the manifest document; when the
\* document can be loaded, add returns its failure (no exception).
C19_AddRejects ==
    (/\ last.op = "add"
     /\ \/ ~Exists(last.fs0, last.file)
        \/ ~UnderHome(Resolve(last.fs0, last.file)))
    => (/\ ~last.ok
        /\ fs = last.fs0
        /\ doc = last.doc0
        /\ bk = EmptyBackup
        /\ LoadRaised(last.doc0) = "" => last.raised = "")

\* add was given a home path that is a symlink to a file outside home, with
\* a manifest that holds entries: it returned failure.
C19_Witness ==
    /\ last.op = "add" /\ ~last.ok /\ last.raised = ""
    /\ last.file \in HomePaths
    /\ last.fs0[last.file].k = "link"
    /\ Exists(last.fs0, last.file)
    /\ ~UnderHome(Resolve(last.fs0, last.file))
    /\ Load(last.doc0) # <<>>

\* The check of one entry, whatever is at its source.
CheckOf(f, e) ==
    IF e.type = "symlink" THEN check_symlink(f, e.source, e.dest)
    ELSE check_copy(f, e.source, e.dest)

\* The entries of the document that have no platform or the current one, in
\* the order of the document.
Kept(data) ==
    LET es == Load(data)
        keep == {i \in 1..Len(es) : es[i].platform \in {"none", CurrentPlatform}}
    IN [n \in 1..Cardinality(keep) |->
           es[CHOOSE i \in keep : Cardinality({j \in keep : j <= i}) = n]]

\* C20 as stated (diff and status are read-only): diff and status change
\* nothing, and what they report is the check status of exactly the entries
\* of the current platform: diff one row per such entry, status the number
\* of such entries whose check is not "ok".
C20_ReportsCheckStatus ==
    last.op \in {"diff", "status"} =>
        /\ fs = last.fs0 /\ doc = last.doc0 /\ bk = EmptyBackup
        /\ (last.op = "diff" /\ last.raised = "") =>
              last.report = [i \in 1..Len(Kept(doc)) |-> CheckOf(fs, Kept(doc)[i])]
        /\ (last.op = "status" /\ last.raised = "") =>
              last.report[3] = Cardinality({i \in 1..Len(Kept(doc)) :
                                               CheckOf(fs, Kept(doc)[i]) # "ok"})

\* C20 as amended: diff and status change nothing, whatever the document;
\* what they report is, over exactly the entries of the current platform and
\* in their order: for diff, "missing src" for an entry whose source is not
\* in the repository and the entry's check status otherwise; for status, the
\* number of entries whose source is missing or whose check is not "ok".
C20_ReadOnlyReport ==
    last.op \in {"diff", "status"} =>
        /\ fs = last.fs0 /\ doc = last.doc0 /\ bk = EmptyBackup
        /\ last.raised = "" =>
              LET es == Kept(doc)
                  row(i) == IF Exists(fs, es[i].source) THEN CheckOf(fs, es[i])
                            ELSE "missing src"
              IN /\ last.op = "diff" =>
                       last.report = [i \in 1..Len(es) |-> row(i)]
                 /\ last.op = "status" =>
                       last.report[3] =
                           Cardinality({i \in 1..Len(es) : row(i) # "ok"})

\* diff went over a document of four entries, one of them of another
\* platform: three rows, one "ok", one "missing src".
C20_Witness ==
    /\ last.op = "diff"
    /\ Len(Load(doc)) = 4
    /\ Len(last.report) = 3
    /\ \E i, j \in 1..3 : last.report[i] = "ok" /\ last.report[j] = "missing src"

(***************************************************************************)
(* Properties of apply and collect that speak of the platform filter       *)
(* (SpecApply).                                                            *)
(***************************************************************************)
\* The entries of the document that are of another platform.
Foreign(data) ==
    {e \in Range(Load(data)) : e.platform \notin {"none", CurrentPlatform}}

Reached(f, es) ==
    UNION {{es[i].dest, es[i].source, Resolve(f, es[i].dest),
            Resolve(f, es[i].source)} : i \in 1..Len(es)}

C28_BackupsDoNotCollide ==
    (/\ RealApply /\ last.force /\ last.raised = ""
     /\ DestUnique(Filtered(last.doc0))
     /\ \A e \in Range(Filtered(last.doc0)) : e.type = "symlink")
    => LET es == Filtered(last.doc0)
           f0 == last.fs0
       IN \A i \in 1..Len(es) :
              (last.res[i] = "created" /\ f0[es[i].dest].k # "absent") =>
                  IF f0[es[i].dest].k = "link"
                  THEN bk[WithSuffixSymlink(es[i].dest)] =
                           Text(IF Exists(f0, es[i].dest)
                                THEN Resolve(f0, es[i].dest) ELSE "broken")
                  ELSE bk[es[i].dest] = f0[es[i].dest]

(***************************************************************************)
(* Properties of apply on a repository with derived locations (SpecSync).  *)
(***************************************************************************)
\* C27 (apply never writes into the repository's tracked files): whatever
\* the manifest and the home hold, symlinks into the repository included,
\* apply changes only paths under home (and the run's backup directory): no
\* path outside home, and so no source of an entry, is created, overwritten
\* or removed.
C27_ApplyKeepsRepository ==
    last.op = "apply" =>
        /\ \A p \in (DOMAIN fs) \ HomePaths : fs[p] = last.fs0[p]
        /\ LoadRaised(last.doc0) = "" =>
              \A e \in Range(Load(last.doc0)) : fs[e.source] = last.fs0[e.source]

(***************************************************************************)
(* Properties of add over two calls (SpecAdd).                             *)
(***************************************************************************)
\* C29 (add maps distinct destinations to distinct repository locations):
\* when two files with different home-relative paths are added one after
\* the other, with any secret flags, the source locations add derives are
\* different: the second add does not overwrite the repository copy of the
\* first, and no two entries of the manifest share a source.
C29_DistinctSources ==
    (/\ prev.op = "add" /\ prev.ok /\ last.op = "add" /\ last.ok
     /\ Resolve(prev.fs0, prev.file) # Resolve(last.fs0, last.file))
    => LET first == DerivedSource(Resolve(prev.fs0, prev.file), prev.secret)
           second == DerivedSource(Resolve(last.fs0, last.file), last.secret)
           es == Load(doc)
       IN /\ first # second
          /\ fs[first] = last.fs0[first]
          /\ \A i, j \in 1..Len(es) : i # j => es[i].source # es[j].source

(***************************************************************************)
(* Properties of the steps of add (SpecAddSteps).                          *)
(***************************************************************************)
\* The path holds the node: it is (or leads to) the node, or it is a
\* directory into which the file was copied under the name given.
HoldsCopy(f, p, node, name) ==
    \/ NodeAt(f, p) = node
    \/ /\ node.k = "file"
       /\ NodeAt(f, p).k = "dir"
       /\ \E m \in NodeAt(f, p).e : m[1] = name /\ m[2] = node.c

\* q is the beginning of r.
IsPrefix(q, r) == Len(q) <= Len(r) /\ \A i \in 1..Len(q) : q[i] = r[i]

=============================================================================
